---- MODULE Spec2Model ----
(***************************************************************************)
(* A model of data_cleaning.py (lorena-b/VSLR-model): the CSV reader       *)
(* read_csv_data, the annual-mean aggregator group_means with its merge    *)
(* rule remove_dupes, and the writers means_to_csv / predict_data.         *)
(*                                                                         *)
(* Strings are sequences of one-character strings, so that slicing         *)
(* (pair[0][0:4]), sorting (sorted(years)), parsing (float(cell)) and      *)
(* formatting (the csv writer's str(year)) are computed, not assumed.      *)
(* Floating-point numbers are modelled as exact rationals <<num, den>> in  *)
(* lowest terms with den > 0.                                              *)
(***************************************************************************)
EXTENDS Integers, Sequences, FiniteSets, TLC

\* ------------------------------------------------------------------------
\* Bounds of the model
\* ------------------------------------------------------------------------

\* The largest number of observations a dataset given to group_means holds.
MaxTotalObs == 3

\* The largest number of data rows read_csv_data is handed.
MaxDataRows == 2

\* The largest number of predicted values process_file returns.
MaxPredictions == 2

\* ------------------------------------------------------------------------
\* Exact rationals standing for Python floats
\* ------------------------------------------------------------------------

Abs(n) == IF n < 0 THEN -n ELSE n

RECURSIVE Gcd(_, _)
Gcd(a, b) == IF b = 0 THEN a ELSE Gcd(b, a % b)

\* The rational n/d (d # 0) in lowest terms with a positive denominator.
Rat(n, d) ==
    LET g == Gcd(Abs(n), Abs(d))
        s == IF d < 0 THEN -1 ELSE 1
    IN  <<(s * n) \div g, (s * d) \div g>>

RatOfInt(n) == <<n, 1>>

RatAdd(x, y) == Rat(x[1] * y[2] + y[1] * x[2], x[2] * y[2])

\* x / k for an integer k # 0.
RatDivInt(x, k) == Rat(x[1], x[2] * k)

\* ------------------------------------------------------------------------
\* Strings as sequences of characters
\* ------------------------------------------------------------------------

Digits == <<"0", "1", "2", "3", "4", "5", "6", "7", "8", "9">>

\* The code point of a character of the model's alphabet.
Ord(c) ==
    CASE c = "." -> 46
      [] c = "x" -> 120
      [] OTHER   -> 48 + (CHOOSE i \in 0..9 : Digits[i + 1] = c)

\* Python's s < t on strings: lexicographic by code point, a proper prefix first.
RECURSIVE StrLess(_, _)
StrLess(s, t) ==
    IF t = <<>> THEN FALSE
    ELSE IF s = <<>> THEN TRUE
    ELSE IF Head(s) # Head(t) THEN Ord(Head(s)) < Ord(Head(t))
    ELSE StrLess(Tail(s), Tail(t))

\* Python's s[0:n]: the first n characters, or all of s when it is shorter.
Prefix(s, n) == SubSeq(s, 1, IF Len(s) < n THEN Len(s) ELSE n)

\* A variant of YearOf that slices one character short: pair[0][0:3].
YearOf_short(label) == Prefix(label, 3)

\* pair[0][0:4], the year key of a time-label (lines 55 and 62).
YearOf(label) == Prefix(label, 4)

\* sorted(S) for a finite set of strings (line 56).
RECURSIVE Sorted(_)
Sorted(S) ==
    IF S = {} THEN <<>>
    ELSE LET m == CHOOSE x \in S : \A y \in S \ {x} : StrLess(x, y)
         IN  <<m>> \o Sorted(S \ {m})

\* ------------------------------------------------------------------------
\* The inputs of group_means
\* ------------------------------------------------------------------------

\* The keys of the dataset, in the order read_csv_data inserts them (line 31).
SatelliteNames == <<"topex_pos", "jason-1", "jason-2", "jason-3">>

\* Time-labels: two in 1993, one in 1992 (which sorts first).
L1993a == <<"1", "9", "9", "3", ".", "1">>
L1993b == <<"1", "9", "9", "3", ".", "9">>
L1992 == <<"1", "9", "9", "2", ".", "5">>

\* An observation is a pair (time-label, value).
Observations ==
    { <<L1993a, RatOfInt(10)>>, <<L1993a, RatOfInt(20)>>,
      <<L1993b, RatOfInt(20)>>, <<L1993b, RatOfInt(40)>>,
      <<L1992, RatOfInt(10)>>, <<L1992, RatOfInt(40)>> }

\* All observation lists of length at most n.
RECURSIVE ObsLists(_)
ObsLists(n) ==
    IF n = 0 THEN {<<>>}
    ELSE LET shorter == ObsLists(n - 1)
         IN  shorter \cup {Append(s, o) : s \in {t \in shorter : Len(t) = n - 1},
                                          o \in Observations}

\* All sequences of k observation lists holding at most budget observations.
RECURSIVE ObsTuples(_, _)
ObsTuples(k, budget) ==
    IF k = 0 THEN {<<>>}
    ELSE UNION {{<<l>> \o rest : rest \in ObsTuples(k - 1, budget - Len(l))} :
                l \in ObsLists(budget)}

\* A dataset: one entry per satellite, in the dict's iteration order.
Datasets ==
    {[i \in 1..Len(SatelliteNames) |-> [satellite |-> SatelliteNames[i], obs |-> t[i]]] :
        t \in ObsTuples(Len(SatelliteNames), MaxTotalObs)}

\* ------------------------------------------------------------------------
\* Python dicts as insertion-ordered sequences of <<key, value>>
\* ------------------------------------------------------------------------

Keys(d) == {d[i][1] : i \in 1..Len(d)}

Lookup(d, k) == d[CHOOSE i \in 1..Len(d) : d[i][1] = k][2]

\* d[k] = v: an existing key keeps its place, a new key goes last.
Store(d, k, v) ==
    IF k \in Keys(d)
    THEN [i \in 1..Len(d) |-> IF d[i][1] = k THEN <<k, v>> ELSE d[i]]
    ELSE Append(d, <<k, v>>)

\* ------------------------------------------------------------------------
\* group_means and remove_dupes
\* ------------------------------------------------------------------------

VARIABLES
    data,         \* group_means: the argument
    new_data,     \* group_means: the mapping being built
    pc,           \* group_means: position in the code
    sat,          \* group_means: index of the current satellite in data
    years,        \* group_means: sorted years of the current satellite
    yi,           \* group_means: index of the current year in years
    annual_mean,  \* group_means: the accumulator of lines 59-65
    count,        \* group_means: the counter of lines 60-64
    calls         \* history: the calls of remove_dupes so far

meansVars == <<data, new_data, pc, sat, years, yi, annual_mean, count, calls>>

VARIABLES
    rpc,             \* read_csv_data: position in the code
    skipped,         \* read_csv_data: preamble rows skipped so far (lines 28-29)
    consumed,        \* history: the data rows the csv reader has handed out
    data_sea_level,  \* read_csv_data: the mapping being built
    result           \* read_csv_data: the returned mapping, None before

readVars == <<rpc, skipped, consumed, data_sea_level, result>>

VARIABLES
    wpc,      \* means_to_csv / predict_data: position in the code
    means,    \* means_to_csv: the argument
    csvfile,  \* the rows of data_predictions.csv
    wi,       \* means_to_csv: entries of the argument written so far
    values,   \* predict_data: what process_file returned, None before
    fyear,    \* predict_data: the year range(2021, values[0]) yields next
    fi,       \* predict_data: the index i
    previous  \* history: the rows of data_predictions.csv before the call

csvVars == <<wpc, means, csvfile, wi, values, fyear, fi, previous>>

vars == <<meansVars, readVars, csvVars>>

\* Python's None for a variable that otherwise holds a tuple.
None == <<>>

\* A component that is not running keeps its variables at rest.
IdleMeans ==
    /\ data = <<>>
    /\ new_data = <<>>
    /\ pc = "idle"
    /\ sat = 0
    /\ years = <<>>
    /\ yi = 0
    /\ annual_mean = RatOfInt(0)
    /\ count = 0
    /\ calls = <<>>

IdleRead ==
    /\ rpc = "idle"
    /\ skipped = 0
    /\ consumed = <<>>
    /\ data_sea_level = <<>>
    /\ result = None

IdleCsv ==
    /\ wpc = "idle"
    /\ means = <<>>
    /\ csvfile = <<>>
    /\ wi = 0
    /\ values = None
    /\ fyear = 0
    /\ fi = 0
    /\ previous = <<>>

\* A sequence of strings sorted ascending, duplicates kept.
RECURSIVE SortedList(_)
SortedList(q) ==
    IF q = <<>> THEN <<>>
    ELSE LET i == CHOOSE k \in 1..Len(q) : \A j \in 1..Len(q) : ~StrLess(q[j], q[k])
         IN  <<q[i]>> \o SortedList(SubSeq(q, 1, i - 1) \o SubSeq(q, i + 1, Len(q)))

\* A variant of SortedYears that builds a list, not a set: one entry per
\* observation, sorted([pair[0][0:4] for pair in data[satellite]]).
SortedYears_dups(obs) == SortedList([i \in 1..Len(obs) |-> Prefix(obs[i][1], 4)])

\* {pair[0][0:4] for pair in data[satellite]} (line 55).
YearSet(obs) == {YearOf(obs[i][1]) : i \in 1..Len(obs)}

\* sorted({...}) (lines 55-56).
SortedYears(obs) == Sorted(YearSet(obs))

\* A variant of Accumulate without the test of line 62: every observation
\* of the satellite is added, whatever its year.
RECURSIVE Accumulate_nofilter(_, _, _)
Accumulate_nofilter(obs, year, acc) ==
    IF obs = <<>> THEN acc
    ELSE Accumulate_nofilter(Tail(obs), year,
                             <<RatAdd(acc[1], Head(obs)[2]), acc[2] + 1>>)

\* A variant of Accumulate that compares the year with the whole
\* time-label: year == pair[0].
RECURSIVE Accumulate_fulllabel(_, _, _)
Accumulate_fulllabel(obs, year, acc) ==
    IF obs = <<>> THEN acc
    ELSE Accumulate_fulllabel(Tail(obs), year,
                              IF year = Head(obs)[1]
                              THEN <<RatAdd(acc[1], Head(obs)[2]), acc[2] + 1>>
                              ELSE acc)

\* annual_mean and count after the loop of lines 61-64, as <<sum, count>>.
RECURSIVE Accumulate(_, _, _)
Accumulate(obs, year, acc) ==
    IF obs = <<>> THEN acc
    ELSE Accumulate(Tail(obs), year,
                    IF year = YearOf(Head(obs)[1])
                    THEN <<RatAdd(acc[1], Head(obs)[2]), acc[2] + 1>>
                    ELSE acc)

\* A variant of remove_dupes that overwrites: new_data[year] = mean.
remove_dupes_overwrite(year, nd, mean) == Store(nd, year, mean)

\* A variant of remove_dupes that keeps the first mean of a year.
remove_dupes_keepfirst(year, nd, mean) ==
    IF year \notin Keys(nd) THEN Store(nd, year, mean) ELSE nd

\* The body of remove_dupes (lines 89-93): the mapping after the call.
remove_dupes(year, nd, mean) ==
    IF year \notin Keys(nd)
    THEN Store(nd, year, mean)
    ELSE LET prev == Lookup(nd, year)
         IN  Store(nd, year, RatDivInt(RatAdd(prev, mean), 2))

InitMeans ==
    /\ data \in Datasets
    /\ new_data = <<>>
    /\ pc = "satellite"
    /\ sat = 0
    /\ years = <<>>
    /\ yi = 0
    /\ annual_mean = RatOfInt(0)
    /\ count = 0
    /\ calls = <<>>
    /\ IdleRead
    /\ IdleCsv

\* for satellite in data: the next satellite, and its sorted years (54-56).
NextSatellite ==
    /\ pc = "satellite"
    /\ sat < Len(data)
    /\ sat' = sat + 1
    /\ years' = SortedYears(data[sat + 1].obs)
    /\ yi' = 0
    /\ pc' = "year"
    /\ UNCHANGED <<data, new_data, annual_mean, count, calls>>
    /\ UNCHANGED <<readVars, csvVars>>

\* for year in years: the next year, and the loop of lines 59-64 over it.
SumYear ==
    /\ pc = "year"
    /\ yi < Len(years)
    /\ yi' = yi + 1
    /\ LET acc == Accumulate(data[sat].obs, years[yi + 1], <<RatOfInt(0), 0>>)
       IN  /\ annual_mean' = acc[1]
           /\ count' = acc[2]
    /\ pc' = "divide"
    /\ UNCHANGED <<data, new_data, sat, years, calls>>
    /\ UNCHANGED <<readVars, csvVars>>

\* annual_mean /= count (line 65); Python raises ZeroDivisionError on 0.
Divide ==
    /\ pc = "divide"
    /\ IF count = 0
       THEN /\ pc' = "error"
            /\ UNCHANGED annual_mean
       ELSE /\ annual_mean' = RatDivInt(annual_mean, count)
            /\ pc' = "remove_dupes"
    /\ UNCHANGED <<data, new_data, sat, years, yi, count, calls>>
    /\ UNCHANGED <<readVars, csvVars>>

\* remove_dupes(year, new_data, annual_mean) (line 67).
RemoveDupes ==
    /\ pc = "remove_dupes"
    /\ new_data' = remove_dupes(years[yi], new_data, annual_mean)
    /\ calls' = Append(calls, [sat |-> sat, year |-> years[yi], mean |-> annual_mean,
                               present |-> years[yi] \in Keys(new_data)])
    /\ pc' = "year"
    /\ UNCHANGED <<data, sat, years, yi, annual_mean, count>>
    /\ UNCHANGED <<readVars, csvVars>>

\* The years of the current satellite are exhausted: back to line 54.
EndYears ==
    /\ pc = "year"
    /\ yi = Len(years)
    /\ pc' = "satellite"
    /\ UNCHANGED <<data, new_data, sat, years, yi, annual_mean, count, calls>>
    /\ UNCHANGED <<readVars, csvVars>>

\* return new_data (line 69).
Return ==
    /\ pc = "satellite"
    /\ sat = Len(data)
    /\ pc' = "done"
    /\ UNCHANGED <<data, new_data, sat, years, yi, annual_mean, count, calls>>
    /\ UNCHANGED <<readVars, csvVars>>

NextMeans ==
    \/ NextSatellite
    \/ SumYear
    \/ Divide
    \/ RemoveDupes
    \/ EndYears
    \/ Return

SpecMeans == InitMeans /\ [][NextMeans]_vars

\* group_means as a function of its argument: the same loops, run to the end.
\* The years of one satellite, merged into nd (lines 58-67).
RECURSIVE MergeYears(_, _, _)
MergeYears(obs, ys, nd) ==
    IF ys = <<>> THEN nd
    ELSE LET acc == Accumulate(obs, Head(ys), <<RatOfInt(0), 0>>)
         IN  MergeYears(obs, Tail(ys),
                        remove_dupes(Head(ys), nd, RatDivInt(acc[1], acc[2])))

\* The satellites of d from position s on, merged into nd (lines 54-67).
RECURSIVE MergeSatellites(_, _, _)
MergeSatellites(d, s, nd) ==
    IF s > Len(d) THEN nd
    ELSE MergeSatellites(d, s + 1, MergeYears(d[s].obs, SortedYears(d[s].obs), nd))

\* group_means(d) (lines 49-69).
GroupMeans(d) == MergeSatellites(d, 1, <<>>)

\* ------------------------------------------------------------------------
\* read_csv_data
\* ------------------------------------------------------------------------

\* The rows skipped before the data: range(0, 6) (line 28).
PreambleRows == 6

\* The value of a digit character.
DigitVal(c) == CHOOSE n \in 0..9 : Digits[n + 1] = c

IsDigit(c) == \E n \in 1..10 : Digits[n] = c

RECURSIVE DigitsToInt(_)
DigitsToInt(ds) ==
    IF ds = <<>> THEN 0
    ELSE DigitsToInt(SubSeq(ds, 1, Len(ds) - 1)) * 10 + DigitVal(ds[Len(ds)])

RECURSIVE Pow10(_)
Pow10(k) == IF k = 0 THEN 1 ELSE 10 * Pow10(k - 1)

\* float(cell) for a cell of digits, "." and letters: digits with at most
\* one "." and at least one digit parse, anything else (the empty string
\* included) raises ValueError. ok tells which, val is the number.
ParseFloat(cell) ==
    LET dots == {k \in 1..Len(cell) : cell[k] = "."}
        wellformed ==
            /\ \A k \in 1..Len(cell) : IsDigit(cell[k]) \/ cell[k] = "."
            /\ Cardinality(dots) <= 1
            /\ Cardinality(dots) < Len(cell)
    IN  IF ~wellformed THEN [ok |-> FALSE, val |-> RatOfInt(0)]
        ELSE LET dot == IF dots = {} THEN Len(cell) + 1 ELSE CHOOSE k \in dots : TRUE
                 whole == SubSeq(cell, 1, dot - 1)
                 frac == SubSeq(cell, dot + 1, Len(cell))
             IN  [ok |-> TRUE,
                  val |-> RatAdd(RatOfInt(DigitsToInt(whole)),
                                 Rat(DigitsToInt(frac), Pow10(Len(frac))))]

\* Whether row[c] exists (c counted from 0); indexing past the end raises IndexError.
HasCol(row, c) == c + 1 <= Len(row)

\* row[c], c counted from 0.
Cell(row, c) == row[c + 1]

\* data_sea_level = {'topex_pos': [], ...} (line 31).
EmptyDataset == [k \in 1..Len(SatelliteNames) |-> [satellite |-> SatelliteNames[k], obs |-> <<>>]]

\* data_sea_level[key].append(pair).
AppendObs(d, key, pair) ==
    [k \in 1..Len(d) |-> IF d[k].satellite = key
                         THEN [d[k] EXCEPT !.obs = Append(@, pair)]
                         ELSE d[k]]

\* One "if row[c] != '': data_sea_level[key].append((row[0], float(row[v])))"
\* on the state st = [d, err]; err is set when the statement raises.
Column(st, row, c, v, key) ==
    IF st.err THEN st
    ELSE IF ~HasCol(row, c) THEN [st EXCEPT !.err = TRUE]
    ELSE IF Cell(row, c) = <<>> THEN st
    ELSE IF ~HasCol(row, v) \/ ~ParseFloat(Cell(row, v)).ok THEN [st EXCEPT !.err = TRUE]
    ELSE [st EXCEPT !.d = AppendObs(@, key, <<Cell(row, 0), ParseFloat(Cell(row, v)).val>>)]

\* A variant of ProcessRow whose third statement tests row[3] and appends
\* float(row[2]).
ProcessRow_copypaste(row, d) ==
    Column(Column(Column(Column([d |-> d, err |-> FALSE],
        row, 1, 1, "topex_pos"), row, 2, 2, "jason-1"), row, 3, 2, "jason-2"),
        row, 4, 4, "jason-3")

\* A variant of ProcessRow with an if / elif chain: the statements after the
\* first non-empty cell are not executed.
ProcessRow_elif(row, d) ==
    LET st == [d |-> d, err |-> FALSE]
        chain(c) == ~HasCol(row, c) \/ Cell(row, c) # <<>>
    IN  IF chain(1) THEN Column(st, row, 1, 1, "topex_pos")
        ELSE IF chain(2) THEN Column(st, row, 2, 2, "jason-1")
        ELSE IF chain(3) THEN Column(st, row, 3, 3, "jason-2")
        ELSE Column(st, row, 4, 4, "jason-3")

\* The body of "for row in reader" (lines 34-41) on one row.
ProcessRow(row, d) ==
    Column(Column(Column(Column([d |-> d, err |-> FALSE],
        row, 1, 1, "topex_pos"), row, 2, 2, "jason-1"), row, 3, 3, "jason-2"),
        row, 4, 4, "jason-3")

\* The cells of the input: empty, a number, not a number.
Cells == {<<>>, <<"2", ".", "5">>, <<"x">>}

\* The time-labels of the input rows.
TimeLabels == {L1993a, L1992}

\* Rows of up to 5 columns: a time-label, then cells.
RECURSIVE RowsOfLen(_)
RowsOfLen(n) ==
    IF n = 0 THEN {<<>>}
    ELSE IF n = 1 THEN {<<l>> : l \in TimeLabels}
    ELSE {Append(r, c) : r \in RowsOfLen(n - 1), c \in Cells}

Rows == UNION {RowsOfLen(n) : n \in 0..(Len(SatelliteNames) + 1)}

InitRead ==
    /\ rpc = "skip"
    /\ skipped = 0
    /\ consumed = <<>>
    /\ data_sea_level = <<>>
    /\ result = None
    /\ IdleMeans
    /\ IdleCsv

\* next(reader) hands out a preamble row, which is dropped (lines 28-29).
SkipRow ==
    /\ rpc = "skip"
    /\ skipped < PreambleRows
    /\ skipped' = skipped + 1
    /\ UNCHANGED <<rpc, consumed, data_sea_level, result>>
    /\ UNCHANGED <<meansVars, csvVars>>

\* next(reader) on an exhausted reader raises StopIteration (line 29).
SkipEof ==
    /\ rpc = "skip"
    /\ skipped < PreambleRows
    /\ rpc' = "error"
    /\ UNCHANGED <<skipped, consumed, data_sea_level, result>>
    /\ UNCHANGED <<meansVars, csvVars>>

\* data_sea_level = {...} after the preamble (line 31).
CreateDataset ==
    /\ rpc = "skip"
    /\ skipped = PreambleRows
    /\ data_sea_level' = EmptyDataset
    /\ rpc' = "rows"
    /\ UNCHANGED <<skipped, consumed, result>>
    /\ UNCHANGED <<meansVars, csvVars>>

\* for row in reader: the reader hands out a data row (lines 33-41).
ReadRow ==
    /\ rpc = "rows"
    /\ Len(consumed) < MaxDataRows
    /\ \E row \in Rows :
          LET st == ProcessRow(row, data_sea_level)
          IN  /\ consumed' = Append(consumed, row)
              /\ data_sea_level' = st.d
              /\ rpc' = IF st.err THEN "error" ELSE "rows"
    /\ UNCHANGED <<skipped, result>>
    /\ UNCHANGED <<meansVars, csvVars>>

\* The reader is exhausted: return data_sea_level (line 43).
ReadEof ==
    /\ rpc = "rows"
    /\ result' = <<data_sea_level>>
    /\ rpc' = "done"
    /\ UNCHANGED <<skipped, consumed, data_sea_level>>
    /\ UNCHANGED <<meansVars, csvVars>>

NextRead ==
    \/ SkipRow
    \/ SkipEof
    \/ CreateDataset
    \/ ReadRow
    \/ ReadEof

SpecRead == InitRead /\ [][NextRead]_vars

\* ------------------------------------------------------------------------
\* means_to_csv and predict_data
\* ------------------------------------------------------------------------

\* The first forecast year: range(2021, values[0]) (line 106).
FirstForecastYear == 2021

\* str(n) for an int n >= 0, as the csv writer formats a year.
RECURSIVE IntToStr(_)
IntToStr(n) ==
    IF n < 10 THEN <<Digits[n + 1]>>
    ELSE IntToStr(n \div 10) \o <<Digits[(n % 10) + 1]>>

\* The decimal digits of r/d, 0 <= r < d, d a power of two.
RECURSIVE FracDigits(_, _)
FracDigits(r, d) ==
    IF r = 0 THEN <<>>
    ELSE <<Digits[((r * 10) \div d) + 1]>> \o FracDigits((r * 10) % d, d)

\* str(x) for a float x that is a short binary fraction, as the csv writer
\* formats a value: 15.0 -> "15.0", 27.5 -> "27.5".
FormatFloat(x) ==
    LET n == Abs(x[1])
        frac == FracDigits(n % x[2], x[2])
    IN  (IF x[1] < 0 THEN <<"-">> ELSE <<>>)
        \o IntToStr(n \div x[2]) \o <<".">>
        \o (IF frac = <<>> THEN <<"0">> ELSE frac)

\* ['year', 'mean_sea_level'] (line 78).
HeaderRow ==
    << <<"y", "e", "a", "r">>,
       <<"m", "e", "a", "n", "_", "s", "e", "a", "_", "l", "e", "v", "e", "l">> >>

\* A variant of OpenForWriting that opens in mode 'a' and keeps the content.
OpenForWriting_append(f) == f

\* open('data_predictions.csv', 'w'): the file is truncated (line 76).
OpenForWriting(f) == <<>>

\* open('data_predictions.csv', 'a'): the content stays (line 103).
OpenForAppending(f) == f

\* A variant of InRange that includes the stop: range(2021, values[0] + 1).
InRange_inclusive(year, stop) == year <= stop

\* Whether range(2021, stop) still yields year (line 106).
InRange(year, stop) == year < stop

\* The year keys of the mappings given to means_to_csv.
YearKeys == {<<"1", "9", "9", "2">>, <<"1", "9", "9", "3">>}

\* The floats of the mappings and of the forecasts.
Floats == {RatOfInt(15), <<55, 2>>}

\* Mappings of up to two years, in either insertion order.
MeansDicts ==
    {<<>>}
    \cup {<< <<k, v>> >> : k \in YearKeys, v \in Floats}
    \cup {m \in {<< <<k1, v1>>, <<k2, v2>> >> :
                     k1 \in YearKeys, k2 \in YearKeys, v1 \in Floats, v2 \in Floats} :
             m[1][1] # m[2][1]}

\* What data_predictions.csv may hold before the call: nothing, or old rows.
OldContents == {<<>>, << HeaderRow, << <<"1", "9", "9", "1">>, <<"1", ".", "0">> >> >>}

\* Sequences of predicted values of length at most n.
RECURSIVE Predictions(_)
Predictions(n) ==
    IF n = 0 THEN {<<>>}
    ELSE Predictions(n - 1)
         \cup {Append(q, v) : q \in {t \in Predictions(n - 1) : Len(t) = n - 1},
                              v \in Floats}

\* What process_file may return: (end year, predicted values).
Forecasts ==
    {<<E, V>> : E \in (FirstForecastYear - 1)..(FirstForecastYear + MaxPredictions + 1),
                V \in Predictions(MaxPredictions)}

InitCsv ==
    /\ wpc = "open_w"
    /\ means \in MeansDicts
    /\ csvfile \in OldContents
    /\ previous = csvfile
    /\ wi = 0
    /\ values = None
    /\ fyear = 0
    /\ fi = 0
    /\ IdleMeans
    /\ IdleRead

\* with open('data_predictions.csv', 'w', newline='') as file (line 76).
OpenWrite ==
    /\ wpc = "open_w"
    /\ csvfile' = OpenForWriting(csvfile)
    /\ wpc' = "header"
    /\ UNCHANGED <<means, wi, values, fyear, fi, previous>>
    /\ UNCHANGED <<meansVars, readVars>>

\* writer.writerow(['year', 'mean_sea_level']) (line 78).
WriteHeader ==
    /\ wpc = "header"
    /\ csvfile' = Append(csvfile, HeaderRow)
    /\ wpc' = "rows"
    /\ UNCHANGED <<means, wi, values, fyear, fi, previous>>
    /\ UNCHANGED <<meansVars, readVars>>

\* for year in data: writer.writerow([year, data[year]]) (lines 79-80).
WriteMeanRow ==
    /\ wpc = "rows"
    /\ wi < Len(means)
    /\ LET year == means[wi + 1][1]
       IN  csvfile' = Append(csvfile, <<year, FormatFloat(Lookup(means, year))>>)
    /\ wi' = wi + 1
    /\ UNCHANGED <<wpc, means, values, fyear, fi, previous>>
    /\ UNCHANGED <<meansVars, readVars>>

\* The mapping is exhausted, the file is closed: predict_data() (line 82).
CallPredict ==
    /\ wpc = "rows"
    /\ wi = Len(means)
    /\ wpc' = "process_file"
    /\ UNCHANGED <<means, csvfile, wi, values, fyear, fi, previous>>
    /\ UNCHANGED <<meansVars, readVars>>

\* values = process_file() (line 102): the routine returns some forecast.
ProcessFile ==
    /\ wpc = "process_file"
    /\ values' \in Forecasts
    /\ wpc' = "open_a"
    /\ UNCHANGED <<means, csvfile, wi, fyear, fi, previous>>
    /\ UNCHANGED <<meansVars, readVars>>

\* with open(..., 'a') as file; i = 0; the range starts at 2021 (103-106).
OpenAppend ==
    /\ wpc = "open_a"
    /\ csvfile' = OpenForAppending(csvfile)
    /\ fi' = 0
    /\ fyear' = FirstForecastYear
    /\ wpc' = "forecast"
    /\ UNCHANGED <<means, wi, values, previous>>
    /\ UNCHANGED <<meansVars, readVars>>

\* writer.writerow([year, values[1][i]]); i += 1 (lines 107-108);
\* values[1][i] raises IndexError past the end of the predicted values.
ForecastRow ==
    /\ wpc = "forecast"
    /\ InRange(fyear, values[1])
    /\ IF fi + 1 > Len(values[2])
       THEN /\ wpc' = "error"
            /\ UNCHANGED <<csvfile, fyear, fi>>
       ELSE /\ csvfile' = Append(csvfile, <<IntToStr(fyear), FormatFloat(values[2][fi + 1])>>)
            /\ fi' = fi + 1
            /\ fyear' = fyear + 1
            /\ UNCHANGED wpc
    /\ UNCHANGED <<means, wi, values, previous>>
    /\ UNCHANGED <<meansVars, readVars>>

\* The range is exhausted: predict_data and means_to_csv return.
EndForecast ==
    /\ wpc = "forecast"
    /\ ~InRange(fyear, values[1])
    /\ wpc' = "done"
    /\ UNCHANGED <<means, csvfile, wi, values, fyear, fi, previous>>
    /\ UNCHANGED <<meansVars, readVars>>

NextCsv ==
    \/ OpenWrite
    \/ WriteHeader
    \/ WriteMeanRow
    \/ CallPredict
    \/ ProcessFile
    \/ OpenAppend
    \/ ForecastRow
    \/ EndForecast

SpecCsv == InitCsv /\ [][NextCsv]_vars

\* ------------------------------------------------------------------------
\* Vocabulary of the properties of group_means, defined from the dataset
\* alone (none of it is used by the actions above)
\* ------------------------------------------------------------------------

\* The first 4 characters of a time-label.
FirstFour(label) == [i \in 1..(IF Len(label) < 4 THEN Len(label) ELSE 4) |-> label[i]]

\* The positions of satellite s's observations that fall in year Y.
ObsIn(s, Y) == {i \in 1..Len(data[s].obs) : FirstFour(data[s].obs[i][1]) = Y}

\* The satellites (by position in the dataset) with an observation in year Y.
SourcesOf(Y) == {s \in 1..Len(data) : ObsIn(s, Y) # {}}

\* Every year some observation of the dataset falls in.
AllYears ==
    UNION {{FirstFour(data[s].obs[i][1]) : i \in 1..Len(data[s].obs)} : s \in 1..Len(data)}

\* The sum of the values of satellite s's observations at the positions I.
RECURSIVE SumAt(_, _)
SumAt(s, I) ==
    IF I = {} THEN RatOfInt(0)
    ELSE LET i == CHOOSE j \in I : TRUE
         IN  RatAdd(data[s].obs[i][2], SumAt(s, I \ {i}))

\* Satellite s's annual mean for year Y: sum divided by count.
MeanOf(s, Y) == RatDivInt(SumAt(s, ObsIn(s, Y)), Cardinality(ObsIn(s, Y)))

\* A finite set of numbers as an ascending sequence.
RECURSIVE Ascending(_)
Ascending(S) ==
    IF S = {} THEN <<>>
    ELSE LET m == CHOOSE x \in S : \A y \in S : x <= y
         IN  <<m>> \o Ascending(S \ {m})

\* The per-source annual means m1..mk of year Y, in processing order.
MeansInOrder(Y) ==
    LET ss == Ascending(SourcesOf(Y))
    IN  [j \in 1..Len(ss) |-> MeanOf(ss[j], Y)]

\* v1 = m1, v(i+1) = (v(i) + m(i+1)) / 2; the value is vk.
RECURSIVE FoldMerge(_)
FoldMerge(ms) ==
    IF Len(ms) = 1 THEN ms[1]
    ELSE RatDivInt(RatAdd(FoldMerge(SubSeq(ms, 1, Len(ms) - 1)), ms[Len(ms)]), 2)

\* ------------------------------------------------------------------------
\* C1: when group_means returns, the value stored for every year Y that
\* some source has an observation in is the left fold of the per-source
\* annual means m1..mk in processing order: m1 when k = 1, else
\* v(i+1) = (v(i) + m(i+1)) / 2. In particular the means 10, 20 give 15 and
\* the means 10, 20, 40 give 27.5.
\* ------------------------------------------------------------------------
C1_MergeIsLeftFold ==
    pc = "done" =>
        \A Y \in AllYears :
            /\ Y \in Keys(new_data)
            /\ Lookup(new_data, Y) = FoldMerge(MeansInOrder(Y))
            /\ MeansInOrder(Y) = <<RatOfInt(10), RatOfInt(20)>>
                  => Lookup(new_data, Y) = RatOfInt(15)
            /\ MeansInOrder(Y) = <<RatOfInt(10), RatOfInt(20), RatOfInt(40)>>
                  => Lookup(new_data, Y) = <<55, 2>>

\* Three sources with the means 10, 20, 40 for one year have been merged to 27.5.
C1_Witness ==
    /\ pc = "done"
    /\ \E Y \in AllYears :
          /\ MeansInOrder(Y) = <<RatOfInt(10), RatOfInt(20), RatOfInt(40)>>
          /\ Lookup(new_data, Y) = <<55, 2>>

\* ------------------------------------------------------------------------
\* C2: when group_means returns, every year Y that exactly one source S has
\* observations in is a key whose value is the sum divided by the count of
\* exactly those values of S whose time-label's first 4 characters are Y;
\* 10.0 at "1993.1" and 20.0 at "1993.9" give {"1993": 15.0}.
\* ------------------------------------------------------------------------
C2_SingleSourceMean ==
    pc = "done" =>
        \A Y \in AllYears :
            Cardinality(SourcesOf(Y)) = 1 =>
                LET S == CHOOSE s \in SourcesOf(Y) : TRUE
                IN  /\ Y \in Keys(new_data)
                    /\ Lookup(new_data, Y) = MeanOf(S, Y)
                    /\ data[S].obs = <<<<L1993a, RatOfInt(10)>>, <<L1993b, RatOfInt(20)>>>>
                          => Lookup(new_data, Y) = RatOfInt(15)

\* One source alone holds 10.0 at "1993.1" and 20.0 at "1993.9", and the
\* returned mapping gives 15.0 for "1993".
C2_Witness ==
    /\ pc = "done"
    /\ \E S \in 1..Len(data) :
          /\ data[S].obs = <<<<L1993a, RatOfInt(10)>>, <<L1993b, RatOfInt(20)>>>>
          /\ SourcesOf(<<"1", "9", "9", "3">>) = {S}
          /\ Lookup(new_data, <<"1", "9", "9", "3">>) = RatOfInt(15)

\* ------------------------------------------------------------------------
\* C3: in every state of a run of group_means, the returned one included,
\* every key of new_data is the first 4 characters of the time-label of at
\* least one observation of at least one source.
\* ------------------------------------------------------------------------
C3_KeysHaveObservations ==
    \A Y \in Keys(new_data) : SourcesOf(Y) # {}

\* The mapping holds two keys while group_means is still running.
C3_Witness ==
    /\ pc \notin {"done", "error"}
    /\ Cardinality(Keys(new_data)) = 2

\* ------------------------------------------------------------------------
\* C4: the division annual_mean /= count is only ever executed with
\* count >= 1, group_means never raises, and in every state before the
\* return one of its steps can be taken (it runs on until it returns), for
\* every dataset (sources with no observation included).
\* ------------------------------------------------------------------------
C4_NoDivisionByZero ==
    /\ pc # "error"
    /\ pc = "divide" => count >= 1
    /\ pc # "done" =>
          \/ pc = "satellite" /\ sat <= Len(data)
          \/ pc = "year" /\ yi <= Len(years)
          \/ pc = "divide"
          \/ pc = "remove_dupes" /\ yi \in 1..Len(years)

\* group_means has returned for a dataset whose first source has no
\* observation, after dividing for a later source.
C4_Witness ==
    /\ pc = "done"
    /\ data[1].obs = <<>>
    /\ calls # <<>>

\* ------------------------------------------------------------------------
\* C5: the merge rule depends on the processing order once three sources
\* contribute to a year: with per-source means m1, m2, m3 and m1 # m3, the
\* value stored for the year differs from the one group_means stores when
\* the same sources are processed in the opposite order; the order
\* 10, 20, 40 gives 27.5 and the order 40, 20, 10 gives 20.
\* ------------------------------------------------------------------------

\* The dataset d with its entries in the opposite iteration order.
Reversed(d) == [i \in 1..Len(d) |-> d[Len(d) + 1 - i]]

C5_OrderDependent ==
    pc = "done" =>
        \A Y \in AllYears :
            LET ms == MeansInOrder(Y)
                there == Lookup(new_data, Y)
                back == Lookup(GroupMeans(Reversed(data)), Y)
            IN  /\ (Len(ms) = 3 /\ ms[1] # ms[3]) => there # back
                /\ ms = <<RatOfInt(10), RatOfInt(20), RatOfInt(40)>>
                      => (there = <<55, 2>> /\ back = RatOfInt(20))

\* A year with the means 10, 20, 40 holds 27.5, and 20 in the opposite order.
C5_Witness ==
    /\ pc = "done"
    /\ \E Y \in AllYears :
          /\ MeansInOrder(Y) = <<RatOfInt(10), RatOfInt(20), RatOfInt(40)>>
          /\ Lookup(new_data, Y) # Lookup(GroupMeans(Reversed(data)), Y)
          /\ Lookup(GroupMeans(Reversed(data)), Y) = RatOfInt(20)

\* ------------------------------------------------------------------------
\* C10: during a run of group_means remove_dupes is called at most once for
\* each (source, year) pair; a call finds its year present exactly when an
\* earlier call stored it, and every earlier call for that year was made
\* for a source processed earlier; and when group_means returns, the number
\* of averaging steps applied to a year is the number of sources with
\* observations in that year minus one.
\* ------------------------------------------------------------------------
C10_OneCallPerSourceYear ==
    /\ \A i, j \in 1..Len(calls) :
          (calls[i].sat = calls[j].sat /\ calls[i].year = calls[j].year) => i = j
    /\ \A j \in 1..Len(calls) :
          /\ calls[j].present <=> \E i \in 1..(j - 1) : calls[i].year = calls[j].year
          /\ \A i \in 1..(j - 1) :
                calls[i].year = calls[j].year => calls[i].sat < calls[j].sat
    /\ pc = "done" =>
          \A Y \in AllYears :
              Cardinality({j \in 1..Len(calls) : calls[j].year = Y /\ calls[j].present})
                  = Cardinality(SourcesOf(Y)) - 1

\* A year three sources have observations in was averaged twice.
C10_Witness ==
    /\ pc = "done"
    /\ \E Y \in AllYears :
          /\ Cardinality(SourcesOf(Y)) = 3
          /\ Cardinality({j \in 1..Len(calls) : calls[j].year = Y /\ calls[j].present}) = 2

\* ------------------------------------------------------------------------
\* Vocabulary of the properties of read_csv_data, defined from the rows
\* handed out alone
\* ------------------------------------------------------------------------

\* A data row with at least 5 columns whose value cells (columns 1..4,
\* counted from 0) are each empty or a number.
GoodRow(r) ==
    /\ Len(r) >= 5
    /\ \A c \in 2..5 : r[c] = <<>> \/ ParseFloat(r[c]).ok

\* The observations the non-empty cells of value column j (1..4) give, in
\* row order, each with its row's column-0 time-label.
RECURSIVE CellsOf(_, _)
CellsOf(rows, j) ==
    IF rows = <<>> THEN <<>>
    ELSE (IF Head(rows)[j + 1] # <<>>
          THEN <<<<Head(rows)[1], ParseFloat(Head(rows)[j + 1]).val>>>>
          ELSE <<>>) \o CellsOf(Tail(rows), j)

\* read_csv_data has returned a mapping with exactly the four keys, holding
\* for each source exactly the observations of its column's non-empty cells.
ReturnedAsRead ==
    /\ rpc = "done"
    /\ Len(result) = 1
    /\ LET d == result[1]
       IN  /\ Len(d) = 4
           /\ {d[k].satellite : k \in 1..Len(d)} =
                 {"topex_pos", "jason-1", "jason-2", "jason-3"}
           /\ \A j \in 1..4 : d[j].satellite = SatelliteNames[j]
           /\ \A j \in 1..4 : d[j].obs = CellsOf(consumed, j)

C7_ReaderFailure ==
    (\E k \in 1..Len(consumed) : ~GoodRow(consumed[k]))
        => (rpc = "error" /\ result = None)

\* After a good row, a row of 5 columns failed on its last cell although
\* its first value cell was a number.
C7_Witness ==
    /\ rpc = "error"
    /\ Len(consumed) = 2
    /\ GoodRow(consumed[1])
    /\ consumed[2] = <<L1992, <<"2", ".", "5">>, <<>>, <<>>, <<"x">>>>

\* ------------------------------------------------------------------------
\* Vocabulary of the properties of means_to_csv and predict_data
\* ------------------------------------------------------------------------

\* The number of years in 2021 .. E - 1.
ForecastYears(E) == IF E > 2021 THEN E - 2021 ELSE 0

\* The header row, then one row per key of M in M's iteration order.
HistoricalRows(M) ==
    <<HeaderRow>> \o [k \in 1..Len(M) |-> <<M[k][1], FormatFloat(M[k][2])>>]

\* One row (2021 + i, V[i]) for each i from 0 to E - 2022, ascending.
ForecastRows(E, V) ==
    [j \in 1..ForecastYears(E) |-> <<IntToStr(2021 + (j - 1)), FormatFloat(V[j])>>]

\* ------------------------------------------------------------------------
\* C8: when means_to_csv(M) completes, the forecasting routine having
\* returned (E, V) with len(V) >= E - 2021, data_predictions.csv holds
\* exactly the header row, then one row (y, M[y]) per key y of M in M's
\* iteration order, then one row (2021 + i, V[i]) for i = 0 .. E - 2022 in
\* ascending order: the previous content is gone and the values of V past
\* index E - 2022 are not written.
\* ------------------------------------------------------------------------
C8_FileContent ==
    wpc = "done" =>
        /\ Len(values[2]) >= values[1] - 2021
        /\ csvfile = HistoricalRows(means) \o ForecastRows(values[1], values[2])

\* The file held old rows; the mapping lists 1993 before 1992; the routine
\* returned (2022, two values); the file holds four rows, ending with the
\* row of 2021, and the second predicted value is not written.
C8_Witness ==
    /\ wpc = "done"
    /\ previous # <<>>
    /\ means = << << <<"1", "9", "9", "3">>, <<55, 2>> >>,
                  << <<"1", "9", "9", "2">>, RatOfInt(15) >> >>
    /\ values = <<2022, <<RatOfInt(15), <<55, 2>>>>>>
    /\ csvfile = << HeaderRow,
                    << <<"1", "9", "9", "3">>, <<"2", "7", ".", "5">> >>,
                    << <<"1", "9", "9", "2">>, <<"1", "5", ".", "0">> >>,
                    << <<"2", "0", "2", "1">>, <<"1", "5", ".", "0">> >> >>

\* ------------------------------------------------------------------------
\* C9: predict_data fails exactly when the forecasting routine returns
\* (E, V) with len(V) < E - 2021: it ends in an error only then, it returns
\* only otherwise, and while it runs it has written i rows and can go on;
\* when E <= 2021 it appends no row and does not fail, even with V empty.
\* ------------------------------------------------------------------------
C9_IndexExhaustion ==
    /\ wpc = "error" => (Len(values) = 2 /\ Len(values[2]) < values[1] - 2021)
    /\ wpc = "done" => Len(values[2]) >= values[1] - 2021
    /\ wpc = "forecast" =>
          /\ fyear = 2021 + fi
          /\ fi <= Len(values[2])
          /\ fi <= ForecastYears(values[1])
          /\ csvfile = HistoricalRows(means) \o ForecastRows(2021 + fi, values[2])
    /\ (wpc \in {"forecast", "done", "error"} /\ values[1] <= 2021) =>
          (wpc # "error" /\ csvfile = HistoricalRows(means))

\* The routine returned (2023, one value): the row of 2021 was written and
\* the row of 2022 failed.
C9_Witness ==
    /\ wpc = "error"
    /\ values[1] = 2023
    /\ Len(values[2]) = 1
    /\ Len(csvfile) = Len(means) + 2

====
